---- MODULE Spec2Model ----
(***************************************************************************)
(* Model of the milli terminal viewer: Editor (src/src/editor.rs),         *)
(* Document (src/src/document.rs) and Terminal (src/src/terminal.rs).      *)
(*                                                                         *)
(* Strings are sequences of one-character strings.  The terminal output    *)
(* is a sequence of operation records, in the order the code emits them.   *)
(* usize is scaled down to 0..UsizeMax with the code's saturating          *)
(* arithmetic kept, so that the saturating branches are exercised.         *)
(***************************************************************************)
EXTENDS Integers, Sequences, FiniteSets

VARIABLES
    env,              \* startup inputs: argv, whether the file is readable, its contents
    pc,               \* position of Editor::run
    should_quit,      \* Editor.should_quit
    terminal,         \* Editor.terminal.size: [width, height]
    cursor_position,  \* Editor.cursor_position: [x, y]
    offset,           \* Editor.offset: [x, y]
    document,         \* Editor.document: [rows, file_name]
    status_message,   \* Editor.status_message: [text, time]
    now,              \* the monotonic clock read by Instant::now(), in seconds
    out,              \* terminal operations emitted by the frame in progress / last frame
    rendered,         \* history: a frame was completed since the last key read
    quit_renders,     \* history: frames completed while should_quit was true
    keys_read,        \* history: number of keys read so far, counted up to KeysCap
    last_key          \* history: the key read last, "None" before the first

vars == <<env, pc, should_quit, terminal, cursor_position, offset, document,
          status_message, now, out, rendered, quit_renders, keys_read, last_key>>

----------------------------------------------------------------------------
(* Bounds *)

MaxDim == 2
MaxNow == 6
KeysCap == 2
RendersCap == 2
MaxStatusWidth == 36
MaxFrameWidth == 34
MaxFrameHeight == 6
MaxFileLen == 4

(* usize of Position.x / Position.y, scaled; large enough for every size *)
UsizeMax == MaxDim + 2

(* u16 of Size.width / Size.height and of the Goto coordinates *)
U16Modulus == 65536

FOOTER_SIZE == 2
DisplayDuration == 5
FileNameMax == 20
STATUS_FG_COLOR == 63
STATUS_BG_COLOR == 239

----------------------------------------------------------------------------
(* Integer and string helpers *)

Min(a, b) == IF a < b THEN a ELSE b

SatAdd(a, b) == IF a + b > UsizeMax THEN UsizeMax ELSE a + b

SatSub(a, b) == IF a < b THEN 0 ELSE a - b

AsU16(n) == n % U16Modulus

Truncate(s, n) == SubSeq(s, 1, Min(n, Len(s)))

Repeat(c, n) == [i \in 1..n |-> c]

DigitChar == <<"0", "1", "2", "3", "4", "5", "6", "7", "8", "9">>

RECURSIVE Digits(_)
Digits(n) ==
    IF n < 10 THEN <<DigitChar[n + 1]>>
    ELSE Digits(n \div 10) \o <<DigitChar[(n % 10) + 1]>>

Some(v) == <<v>>
None == <<>>

GoodbyeLine == <<"G", "o", "o", "d", "b", "y", "e", ".", "\r", "\n">>
HelpText == <<"H", "E", "L", "P", ":", " ", "C", "t", "r", "l", "-", "Q", " ", "=", " ", "q", "u", "i", "t">>
ErrPrefix == <<"E", "R", "R", ":", " ", "C", "o", "o", "u", "l", "d", " ", "n", "o", "t", " ", "o", "p", "e", "n", " ", "f", "i", "l", "e", ":", " ">>
NoName == <<"[", "N", "o", " ", "N", "a", "m", "e", "]">>
StatusSep == <<" ", "-", " ">>
StatusLines == <<" ", "l", "i", "n", "e", "s">>
WelcomePrefix == <<"M", "i", "l", "l", "i", " ", "E", "d", "i", "t", "o", "r", " ", "-", "-", " ", "v", "e", "r", "s", "i", "o", "n", " ">>
VERSION == <<"0", ".", "1", ".", "0">>

----------------------------------------------------------------------------
(* Document (src/src/document.rs) and Row *)

(* str::lines: split at "\n", drop a "\r" that precedes the "\n", no empty *)
(* last line after a final "\n".                                           *)
FirstLF(s) ==
    IF \E i \in 1..Len(s) : s[i] = "\n"
    THEN CHOOSE i \in 1..Len(s) : s[i] = "\n" /\ \A j \in 1..(i - 1) : s[j] # "\n"
    ELSE 0

StripCR(s) ==
    IF Len(s) > 0 /\ s[Len(s)] = "\r" THEN SubSeq(s, 1, Len(s) - 1) ELSE s

RECURSIVE Lines(_)
Lines(s) ==
    IF s = <<>> THEN <<>>
    ELSE LET i == FirstLF(s)
         IN  IF i = 0 THEN <<s>>
             ELSE <<StripCR(SubSeq(s, 1, i - 1))>> \o Lines(SubSeq(s, i + 1, Len(s)))

RowFrom(s) == s

RowLen(row) == Len(row)

(* Row::render(start, end): the columns [start, end) of the row, clamped *)
RowRender(row, start, end) ==
    LET e == Min(end, Len(row))
        s == Min(start, e)
    IN  SubSeq(row, s + 1, e)

DocumentDefault_OneRow ==
    [rows |-> << <<"H", "e", "l", "l", "o", " ", "w", "o", "r", "l", "d", "!">> >>,
     file_name |-> None]

DocumentDefault == [rows |-> <<>>, file_name |-> None]

DocumentOpen_DropsLast(filename, contents) ==
    [rows |-> [i \in 1..(Len(Lines(contents)) - 1) |-> RowFrom(Lines(contents)[i])],
     file_name |-> Some(filename)]

DocumentOpen(filename, contents) ==
    [rows |-> [i \in 1..Len(Lines(contents)) |-> RowFrom(Lines(contents)[i])],
     file_name |-> Some(filename)]

DocIsEmpty(doc) == doc.rows = <<>>

DocLen(doc) == Len(doc.rows)

(* Document::row: Some(row) for an index in range, None otherwise *)
DocRow(doc, index) ==
    IF index < Len(doc.rows) THEN Some(doc.rows[index + 1]) ELSE None

----------------------------------------------------------------------------
(* Terminal (src/src/terminal.rs) *)

Op(o, a, b, t) == [op |-> o, x |-> a, y |-> b, text |-> t]

TerminalDefault(cols, rows) == [width |-> cols, height |-> SatSub(rows, FOOTER_SIZE)]

CursorHide == Op("Hide", 0, 0, <<>>)
CursorShow == Op("Show", 0, 0, <<>>)
ClearScreen == Op("ClearAll", 0, 0, <<>>)
ClearCurrentLine == Op("ClearLine", 0, 0, <<>>)
SetBgColor(c) == Op("SetBg", c, 0, <<>>)
ResetBgColor == Op("ResetBg", 0, 0, <<>>)
ResetFgColor == Op("ResetFg", 0, 0, <<>>)
Flush == Op("Flush", 0, 0, <<>>)
PrintText(t) == Op("Text", 0, 0, t)
Panic == Op("Panic", 0, 0, <<>>)

(* Terminal::cursor_position: 1-indexed on the wire, cast to u16 *)
CursorPositionOp(p) == Op("Goto", AsU16(SatAdd(p.x, 1)), AsU16(SatAdd(p.y, 1)), <<>>)

----------------------------------------------------------------------------
(* Editor rendering (src/src/editor.rs) *)

(* Editor::write_screen: writeln! to the screen, then flush it; both unwrap *)
WriteScreen(string) == <<Op("Write", 0, 0, string \o <<"\n">>), Flush>>

RenderWelcome(width) ==
    LET welcome_msg == WelcomePrefix \o VERSION
        len == Len(welcome_msg)
        padding == SatSub(width, len) \div 2
        spaces == Repeat(" ", SatSub(padding, 1))
    IN  WriteScreen(<<"~">> \o spaces \o Truncate(welcome_msg, width) \o <<"\r">>)

DrawRow(row, off, width) ==
    LET start == off.x
        end == width + off.x
    IN  WriteScreen(RowRender(row, start, end) \o <<"\r">>)

DrawRowAt_BannerAtHalf(doc, off, size, terminal_row) ==
    <<ClearCurrentLine>> \o
    (IF DocRow(doc, terminal_row + off.y) # None
     THEN DrawRow(DocRow(doc, terminal_row + off.y)[1], off, size.width)
     ELSE IF DocIsEmpty(doc) /\ terminal_row = size.height \div 2
          THEN RenderWelcome(size.width)
          ELSE WriteScreen(<<"~", "\r">>))

DrawRowAt_IgnoresOffset(doc, off, size, terminal_row) ==
    <<ClearCurrentLine>> \o
    (IF DocRow(doc, terminal_row) # None
     THEN DrawRow(DocRow(doc, terminal_row)[1], off, size.width)
     ELSE IF DocIsEmpty(doc) /\ terminal_row = size.height \div 3
          THEN RenderWelcome(size.width)
          ELSE WriteScreen(<<"~", "\r">>))

DrawRowAt(doc, off, size, terminal_row) ==
    <<ClearCurrentLine>> \o
    (IF DocRow(doc, terminal_row + off.y) # None
     THEN DrawRow(DocRow(doc, terminal_row + off.y)[1], off, size.width)
     ELSE IF DocIsEmpty(doc) /\ terminal_row = size.height \div 3
          THEN RenderWelcome(size.width)
          ELSE WriteScreen(<<"~", "\r">>))

RECURSIVE DrawRowsFrom(_, _, _, _)
DrawRowsFrom(doc, off, size, terminal_row) ==
    IF terminal_row >= size.height THEN <<>>
    ELSE DrawRowAt(doc, off, size, terminal_row)
         \o DrawRowsFrom(doc, off, size, terminal_row + 1)

DrawRows(doc, off, size) == DrawRowsFrom(doc, off, size, 0)

StatusFileName(doc) ==
    IF doc.file_name # None THEN Truncate(doc.file_name[1], FileNameMax) ELSE NoName

StatusLeft(doc) == StatusFileName(doc) \o StatusSep \o Digits(DocLen(doc)) \o StatusLines

LineIndicator(doc, cursor) ==
    Digits(SatAdd(cursor.y, 1)) \o <<"/">> \o Digits(DocLen(doc))

StatusPad(width, status, line_indicator) ==
    IF width > Len(status) + Len(line_indicator)
    THEN Repeat(" ", width - Len(status))
    ELSE <<>>

StatusText(doc, cursor, width) ==
    LET status == StatusLeft(doc)
        line_indicator == LineIndicator(doc, cursor)
        padded == status \o StatusPad(width, status, line_indicator)
    IN  Truncate(padded \o line_indicator, width)

DrawStatusBar(doc, cursor, width) ==
    <<SetBgColor(STATUS_BG_COLOR), SetBgColor(STATUS_FG_COLOR)>>
    \o WriteScreen(StatusText(doc, cursor, width))
    \o <<ResetBgColor, ResetFgColor>>

MessageVisible_Inclusive(message, clock) == clock - message.time <= DisplayDuration

MessageVisible(message, clock) == clock - message.time < DisplayDuration

DrawMessageBar(message, clock, width) ==
    <<ClearCurrentLine>> \o
    (IF MessageVisible(message, clock)
     THEN <<PrintText(Truncate(message.text, width))>>
     ELSE <<>>)

QuitFrame == <<ClearScreen, PrintText(GoodbyeLine)>>

FramePrologue == <<CursorHide, ClearScreen, CursorPositionOp([x |-> 0, y |-> 0])>>

FrameEpilogue == <<CursorShow, Flush>>

RefreshScreenOps_AbsoluteCursor(quit, doc, cursor, off, size, message, clock) ==
    FramePrologue \o
    (IF quit
     THEN QuitFrame
     ELSE DrawRows(doc, off, size)
          \o DrawStatusBar(doc, cursor, size.width)
          \o DrawMessageBar(message, clock, size.width)
          \o <<CursorPositionOp([x |-> cursor.x, y |-> cursor.y])>>)
    \o FrameEpilogue

(* Editor::refresh_screen: every operation of one frame, in order *)
RefreshScreenOps(quit, doc, cursor, off, size, message, clock) ==
    FramePrologue \o
    (IF quit
     THEN QuitFrame
     ELSE DrawRows(doc, off, size)
          \o DrawStatusBar(doc, cursor, size.width)
          \o DrawMessageBar(message, clock, size.width)
          \o <<CursorPositionOp([x |-> SatSub(cursor.x, off.x),
                                 y |-> SatSub(cursor.y, off.y)])>>)
    \o FrameEpilogue

(* die: print clear::All, then panic *)
Die == <<ClearScreen, Panic>>

----------------------------------------------------------------------------
(* Scroll controller and navigation *)

ScrollAxis_NoPlusOne(c, o, extent) ==
    IF c < o THEN c
    ELSE IF c >= SatAdd(o, extent) THEN SatSub(c, extent)
    ELSE o

ScrollAxis_Recenter(c, o, extent) ==
    IF c < o THEN c
    ELSE IF c >= SatAdd(o, extent) THEN SatAdd(SatSub(c, extent), 1)
    ELSE IF c > o THEN o + 1 ELSE o

ScrollAxis_SnapToCursor(c, o, extent) ==
    IF c < o THEN c
    ELSE IF c >= SatAdd(o, extent) THEN c
    ELSE o

ScrollAxis(c, o, extent) ==
    IF c < o THEN c
    ELSE IF c >= SatAdd(o, extent) THEN SatAdd(SatSub(c, extent), 1)
    ELSE o

(* Editor::scroll: the new offset for the cursor, the size and the old offset *)
Scroll(cursor, size, off) ==
    [x |-> ScrollAxis(cursor.x, off.x, size.width),
     y |-> ScrollAxis(cursor.y, off.y, size.height)]

NavigationKeys == {"Up", "Down", "Left", "Right", "PageUp", "PageDown", "Home", "End"}

Keys == NavigationKeys \cup {"CtrlQ", "Other"}

Navigate_WrappingLeft(key, doc, size, cursor) ==
    CASE key = "Up"       -> [cursor EXCEPT !.y = SatSub(cursor.y, 1)]
      [] key = "Down"     -> [cursor EXCEPT !.y = SatAdd(cursor.y, 1)]
      [] key = "Left"     -> [cursor EXCEPT !.x =
                                IF cursor.x = 0 THEN UsizeMax ELSE cursor.x - 1]
      [] key = "Right"    -> [cursor EXCEPT !.x = SatAdd(cursor.x, 1)]
      [] key = "PageUp"   -> [cursor EXCEPT !.y = SatSub(cursor.y, size.height)]
      [] key = "PageDown" -> [cursor EXCEPT !.y = SatAdd(cursor.y, size.height)]
      [] key = "Home"     -> [cursor EXCEPT !.x = 0]
      [] key = "End"      -> [cursor EXCEPT !.x =
                                IF DocRow(doc, cursor.y) # None
                                THEN RowLen(DocRow(doc, cursor.y)[1]) ELSE 0]

(* Key::navigation_func applied to the editor and its cursor *)
Navigate(key, doc, size, cursor) ==
    CASE key = "Up"       -> [cursor EXCEPT !.y = SatSub(cursor.y, 1)]
      [] key = "Down"     -> [cursor EXCEPT !.y = SatAdd(cursor.y, 1)]
      [] key = "Left"     -> [cursor EXCEPT !.x = SatSub(cursor.x, 1)]
      [] key = "Right"    -> [cursor EXCEPT !.x = SatAdd(cursor.x, 1)]
      [] key = "PageUp"   -> [cursor EXCEPT !.y = SatSub(cursor.y, size.height)]
      [] key = "PageDown" -> [cursor EXCEPT !.y = SatAdd(cursor.y, size.height)]
      [] key = "Home"     -> [cursor EXCEPT !.x = 0]
      [] key = "End"      -> [cursor EXCEPT !.x =
                                IF DocRow(doc, cursor.y) # None
                                THEN RowLen(DocRow(doc, cursor.y)[1]) ELSE 0]

KeyEffect_AnyOtherQuits(key, quit, doc, size, cursor, off) ==
    IF key \in NavigationKeys
    THEN LET moved == Navigate(key, doc, size, cursor)
         IN  [cursor_position |-> moved,
              offset |-> Scroll(moved, size, off),
              should_quit |-> quit]
    ELSE [cursor_position |-> cursor, offset |-> off, should_quit |-> TRUE]

KeyEffect_QuitResetsView(key, quit, doc, size, cursor, off) ==
    IF key \in NavigationKeys
    THEN LET moved == Navigate(key, doc, size, cursor)
         IN  [cursor_position |-> moved,
              offset |-> Scroll(moved, size, off),
              should_quit |-> quit]
    ELSE IF key = "CtrlQ"
         THEN [cursor_position |-> [x |-> 0, y |-> 0],
               offset |-> Scroll([x |-> 0, y |-> 0], size, off),
               should_quit |-> TRUE]
         ELSE [cursor_position |-> cursor, offset |-> off, should_quit |-> quit]

(* Editor::process_keypresses after the key was read: the new editor fields *)
KeyEffect(key, quit, doc, size, cursor, off) ==
    IF key \in NavigationKeys
    THEN LET moved == Navigate(key, doc, size, cursor)
         IN  [cursor_position |-> moved,
              offset |-> Scroll(moved, size, off),
              should_quit |-> quit]
    ELSE IF key = "CtrlQ"
         THEN [cursor_position |-> cursor, offset |-> off, should_quit |-> TRUE]
         ELSE [cursor_position |-> cursor, offset |-> off, should_quit |-> quit]

----------------------------------------------------------------------------
(* Startup: Editor::default *)

ProgramName == <<"m", "i", "l", "l", "i">>
PathA == <<"a">>

FileContents == { <<>>,
                  <<"a", "b", "c", "\n", "d", "e">>,
                  <<"a", "b", "\r", "\n">> }

Envs ==
    {[args |-> <<ProgramName>>, readable |-> FALSE, contents |-> <<>>],
     [args |-> <<ProgramName, PathA>>, readable |-> FALSE, contents |-> <<>>]}
    \cup {[args |-> <<ProgramName, PathA>>, readable |-> TRUE, contents |-> c] :
            c \in FileContents}

TermCols == 0..MaxDim
TermRows == 0..(MaxDim + FOOTER_SIZE)

InitialDocument(e) ==
    IF Len(e.args) > 1
    THEN IF e.readable THEN DocumentOpen(e.args[2], e.contents) ELSE DocumentDefault
    ELSE DocumentDefault

InitialStatus(e) ==
    IF Len(e.args) > 1 /\ ~e.readable THEN ErrPrefix \o e.args[2] ELSE HelpText

Init ==
    /\ env \in Envs
    /\ \E cols \in TermCols, rows \in TermRows : terminal = TerminalDefault(cols, rows)
    /\ should_quit = FALSE
    /\ document = InitialDocument(env)
    /\ cursor_position = [x |-> 0, y |-> 0]
    /\ offset = [x |-> 0, y |-> 0]
    /\ status_message = [text |-> InitialStatus(env), time |-> 0]
    /\ now = 0
    /\ pc = "refresh"
    /\ out = <<>>
    /\ rendered = FALSE
    /\ quit_renders = 0
    /\ keys_read = 0
    /\ last_key = "None"

----------------------------------------------------------------------------
(* Editor::run *)

(* the operations of a frame that can fail: write_screen's writeln! and  *)
(* flush (unwrap), and the Terminal::flush that ends the frame            *)
FailPositions(frame) == {p \in 1..Len(frame) : frame[p].op \in {"Write", "Flush"}}

(* what reaches the terminal when the operation at position p fails *)
FailedFrame(frame, p) ==
    IF p = Len(frame)
    THEN SubSeq(frame, 1, p - 1) \o Die
    ELSE SubSeq(frame, 1, p - 1) \o <<Panic>>

RunBreaks_Never(quit) == FALSE

(* run: `if self.should_quit { break; }` *)
RunBreaks(quit) == quit

RefreshScreen ==
    /\ pc = "refresh"
    /\ LET frame == RefreshScreenOps(should_quit, document, cursor_position, offset,
                                     terminal, status_message, now)
       IN  \E io \in {0} \cup FailPositions(frame) :
              IF io = 0
              THEN /\ out' = frame
                   /\ pc' = "check_quit"
                   /\ rendered' = TRUE
                   /\ quit_renders' = IF should_quit
                                      THEN Min(quit_renders + 1, RendersCap)
                                      ELSE quit_renders
              ELSE /\ out' = FailedFrame(frame, io)
                   /\ pc' = "panicked"
                   /\ UNCHANGED <<rendered, quit_renders>>
    /\ UNCHANGED <<env, should_quit, terminal, cursor_position, offset, document,
                   status_message, now, keys_read, last_key>>

RunBreak ==
    /\ pc = "check_quit"
    /\ RunBreaks(should_quit)
    /\ pc' = "done"
    /\ UNCHANGED <<env, should_quit, terminal, cursor_position, offset, document,
                   status_message, now, out, rendered, quit_renders, keys_read,
                   last_key>>

ProcessKeypresses_EditsDocument ==
    /\ pc = "check_quit"
    /\ ~RunBreaks(should_quit)
    /\ \E read \in Keys \cup {"Err"} :
          IF read = "Err"
          THEN /\ out' = out \o Die
               /\ pc' = "panicked"
               /\ UNCHANGED <<cursor_position, offset, should_quit, rendered, keys_read,
                            last_key, document>>
          ELSE LET e == KeyEffect(read, should_quit, document, terminal,
                                  cursor_position, offset)
               IN  /\ cursor_position' = e.cursor_position
                   /\ offset' = e.offset
                   /\ should_quit' = e.should_quit
                   /\ pc' = "refresh"
                   /\ rendered' = FALSE
                   /\ keys_read' = Min(keys_read + 1, KeysCap)
                   /\ last_key' = read
                   /\ out' = out
                   /\ document' = IF read = "Other"
                                  THEN [document EXCEPT !.rows = <<>>]
                                  ELSE document
    /\ UNCHANGED <<env, terminal, status_message, now, quit_renders>>

ProcessKeypresses ==
    /\ pc = "check_quit"
    /\ ~RunBreaks(should_quit)
    /\ \E read \in Keys \cup {"Err"} :
          IF read = "Err"
          THEN /\ out' = out \o Die
               /\ pc' = "panicked"
               /\ UNCHANGED <<cursor_position, offset, should_quit, rendered, keys_read,
                            last_key>>
          ELSE LET e == KeyEffect(read, should_quit, document, terminal,
                                  cursor_position, offset)
               IN  /\ cursor_position' = e.cursor_position
                   /\ offset' = e.offset
                   /\ should_quit' = e.should_quit
                   /\ pc' = "refresh"
                   /\ rendered' = FALSE
                   /\ keys_read' = Min(keys_read + 1, KeysCap)
                   /\ last_key' = read
                   /\ out' = out
    /\ UNCHANGED <<env, terminal, document, status_message, now, quit_renders>>

(* time passes while read_key blocks *)
Tick ==
    /\ pc = "check_quit"
    /\ ~RunBreaks(should_quit)
    /\ now < MaxNow
    /\ now' = now + 1
    /\ UNCHANGED <<env, pc, should_quit, terminal, cursor_position, offset, document,
                   status_message, out, rendered, quit_renders, keys_read, last_key>>

Next == RefreshScreen \/ RunBreak \/ ProcessKeypresses \/ Tick

Spec == Init /\ [][Next]_vars

----------------------------------------------------------------------------
(* The status bar as a function of the editor's fields *)

LongName == <<"a", "b", "c", "d", "e", "f", "g", "h", "i", "j", "k", "l", "m", "n", "o", "p", "q", "r", "s", "t", "u", "v", ".", "t", "x", "t">>

StatusFileNames == {None, Some(PathA), Some(LongName)}

StatusDocLens == {0, 1, 10}

InitStatus ==
    /\ env = [args |-> <<ProgramName>>, readable |-> FALSE, contents |-> <<>>]
    /\ \E w \in 0..MaxStatusWidth : terminal = [width |-> w, height |-> 0]
    /\ \E n \in StatusDocLens, f \in StatusFileNames :
          document = [rows |-> [i \in 1..n |-> <<>>], file_name |-> f]
    /\ \E y \in 0..UsizeMax : cursor_position = [x |-> 0, y |-> y]
    /\ offset = [x |-> 0, y |-> 0]
    /\ should_quit = FALSE
    /\ status_message = [text |-> HelpText, time |-> 0]
    /\ now = 0
    /\ pc = "status"
    /\ out = <<>>
    /\ rendered = FALSE
    /\ quit_renders = 0
    /\ keys_read = 0
    /\ last_key = "None"

DrawStatusBarStep ==
    /\ pc = "status"
    /\ out' = DrawStatusBar(document, cursor_position, terminal.width)
    /\ pc' = "status_done"
    /\ UNCHANGED <<env, should_quit, terminal, cursor_position, offset, document,
                   status_message, now, rendered, quit_renders, keys_read, last_key>>

NextStatus == DrawStatusBarStep

SpecStatus == InitStatus /\ [][NextStatus]_vars

----------------------------------------------------------------------------
(* One non-quit frame as a function of the editor's fields *)

FrameDocs ==
    {[rows |-> <<>>, file_name |-> None],
     [rows |-> <<>>, file_name |-> Some(PathA)],
     [rows |-> << <<"a", "b", "c">>, <<"d", "e">>, <<>>, <<"f">> >>,
      file_name |-> Some(PathA)]}

FrameOffsets == {[x |-> ox, y |-> oy] : ox \in 0..1, oy \in 0..1}

InitFrame ==
    /\ env = [args |-> <<ProgramName>>, readable |-> FALSE, contents |-> <<>>]
    /\ \E w \in 0..MaxFrameWidth, h \in 0..MaxFrameHeight :
          terminal = [width |-> w, height |-> h]
    /\ document \in FrameDocs
    /\ offset \in FrameOffsets
    /\ cursor_position = offset
    /\ should_quit = FALSE
    /\ status_message = [text |-> HelpText, time |-> 0]
    /\ now = 0
    /\ pc = "frame"
    /\ out = <<>>
    /\ rendered = FALSE
    /\ quit_renders = 0
    /\ keys_read = 0
    /\ last_key = "None"

DrawFrameStep ==
    /\ pc = "frame"
    /\ out' = RefreshScreenOps(should_quit, document, cursor_position, offset,
                               terminal, status_message, now)
    /\ pc' = "frame_done"
    /\ UNCHANGED <<env, should_quit, terminal, cursor_position, offset, document,
                   status_message, now, rendered, quit_renders, keys_read, last_key>>

NextFrame == DrawFrameStep

SpecFrame == InitFrame /\ [][NextFrame]_vars

----------------------------------------------------------------------------
(* Document::open as a function of the file's contents *)

FileChars == {"a", "\n", "\r"}

RECURSIVE StringsUpTo(_)
StringsUpTo(n) ==
    IF n = 0 THEN {<<>>}
    ELSE LET shorter == StringsUpTo(n - 1)
         IN  shorter \cup {Append(t, c) : t \in shorter, c \in FileChars}

InitDoc ==
    /\ \E c \in StringsUpTo(MaxFileLen) :
          env = [args |-> <<ProgramName, PathA>>, readable |-> TRUE, contents |-> c]
    /\ terminal = [width |-> 0, height |-> 0]
    /\ document = DocumentDefault
    /\ offset = [x |-> 0, y |-> 0]
    /\ cursor_position = [x |-> 0, y |-> 0]
    /\ should_quit = FALSE
    /\ status_message = [text |-> HelpText, time |-> 0]
    /\ now = 0
    /\ pc = "open"
    /\ out = <<>>
    /\ rendered = FALSE
    /\ quit_renders = 0
    /\ keys_read = 0
    /\ last_key = "None"

DocumentOpenStep ==
    /\ pc = "open"
    /\ document' = DocumentOpen(env.args[2], env.contents)
    /\ pc' = "opened"
    /\ UNCHANGED <<env, should_quit, terminal, cursor_position, offset, out,
                   status_message, now, rendered, quit_renders, keys_read, last_key>>

NextDoc == DocumentOpenStep

SpecDoc == InitDoc /\ [][NextDoc]_vars

----------------------------------------------------------------------------
(* Properties *)

CountOp(ops, name) == Cardinality({i \in DOMAIN ops : ops[i].op = name})

CursorVisible(cursor, off, size) ==
    /\ off.x <= cursor.x /\ cursor.x < off.x + size.width
    /\ off.y <= cursor.y /\ cursor.y < off.y + size.height

(* a key was read and processed in this step *)
KeyProcessed(k) ==
    /\ pc = "check_quit" /\ rendered
    /\ ~rendered' /\ last_key' = k

(* C1: with width > 0 and height > 0, from cursor (0,0) and offset (0,0),  *)
(* after any sequence of keys the cursor is inside the visible rectangle:  *)
(* offset.x <= cursor.x < offset.x + width and the same for y.             *)
C1_CursorAlwaysVisible ==
    (terminal.width > 0 /\ terminal.height > 0)
        => CursorVisible(cursor_position, offset, terminal)

C1_Witness ==
    /\ terminal.width > 0 /\ terminal.height > 0
    /\ offset.x > 0 /\ offset.y > 0
    /\ last_key \in NavigationKeys
    /\ pc = "check_quit"

(* C2: a key is read only right after a completed render and never once    *)
(* should_quit is true; after should_quit becomes true exactly one more    *)
(* frame is rendered and the loop's next step is its exit.                 *)
C2_RenderBeforeEveryRead ==
    /\ [][ /\ (pc = "check_quit" /\ pc' \in {"refresh", "panicked"})
                => (rendered /\ ~should_quit)
           /\ (should_quit /\ pc = "check_quit") => pc' = "done"
           /\ (should_quit /\ pc = "done") => UNCHANGED vars ]_vars
    /\ [](/\ quit_renders <= 1
          /\ (should_quit /\ pc \in {"check_quit", "done"}) => quit_renders = 1
          /\ (should_quit /\ pc = "refresh") => quit_renders = 0
          /\ pc = "done" => should_quit)

C2_Witness ==
    /\ pc = "done"
    /\ quit_renders = 1
    /\ keys_read = KeysCap

(* C3: when Ctrl-Q is the first key, the output after that key has exactly *)
(* one full-screen clear, followed by the line "Goodbye.", and the loop    *)
(* has exited.                                                             *)
C3_QuitFrameOneClear ==
    (keys_read = 1 /\ should_quit /\ pc = "done")
        => /\ CountOp(out, "ClearAll") = 1
           /\ \E i \in DOMAIN out :
                /\ out[i] = PrintText(GoodbyeLine)
                /\ \E j \in 1..(i - 1) : out[j].op = "ClearAll"
                /\ \A j \in (i + 1)..Len(out) : out[j].op \notin {"Text", "Write"}

(* C4: a frame rendered after a non-quit key clears line by line and emits *)
(* no whole-screen clear.                                                  *)
C4_NoFullClearAfterKey ==
    (pc = "check_quit" /\ keys_read > 0 /\ ~should_quit)
        => /\ CountOp(out, "ClearAll") = 0
           /\ CountOp(out, "ClearLine") = terminal.height + 1

(* C5: when the cursor is already inside the visible rectangle, scroll     *)
(* leaves offset.x and offset.y unchanged.                                 *)
C5_VisibleCursorKeepsOffset ==
    [][ (\E k \in NavigationKeys : KeyProcessed(k))
            => (CursorVisible(cursor_position', offset, terminal)
                    => offset' = offset) ]_vars

C5_Witness ==
    /\ last_key = "Right"
    /\ terminal.height > 0
    /\ offset.x = 0 /\ offset.y > 0
    /\ cursor_position.x > 0 /\ cursor_position.x < terminal.width

FallbackCase == Len(env.args) <= 1 \/ ~env.readable

IsSuffix(t, s) == Len(t) <= Len(s) /\ SubSeq(s, Len(s) - Len(t) + 1, Len(s)) = t

(* C6 as stated: with the file argument absent or unreadable the document  *)
(* is the single row "Hello world!" and the status message names the path. *)
C6_FallbackHelloWorld ==
    FallbackCase
        => /\ document.rows = << <<"H", "e", "l", "l", "o", " ", "w", "o", "r", "l", "d", "!">> >>
           /\ Len(env.args) > 1 => IsSuffix(env.args[2], status_message.text)

(* C6 amended: with the file argument absent or unreadable the editor      *)
(* starts its run loop with an empty document without a file name; the     *)
(* status message is the error text ending in the path when a path was     *)
(* given and could not be read, and the help text when no path was given.  *)
C6_FallbackEmptyDocument ==
    FallbackCase
        => /\ DocLen(document) = 0 /\ document.file_name = None
           /\ out = <<>> => pc = "refresh"
           /\ IF Len(env.args) > 1
              THEN /\ IsSuffix(env.args[2], status_message.text)
                   /\ SubSeq(status_message.text, 1, 3) = <<"E", "R", "R">>
              ELSE status_message.text = HelpText

C6_Witness ==
    /\ Len(env.args) > 1 /\ ~env.readable
    /\ pc = "check_quit"
    /\ keys_read = 0

(* C7: every abort caused by an output failure comes right after an        *)
(* attempted full-screen clear.                                            *)
C7_AbortOnlyAfterClear ==
    \A i \in DOMAIN out :
        out[i].op = "Panic" => (i > 1 /\ out[i - 1].op = "ClearAll")

(* C8: a key that is neither a navigation key nor Ctrl-Q leaves cursor,    *)
(* offset, should_quit and the document unchanged, and the loop goes on to *)
(* render the next frame.                                                  *)
C8_OtherKeyChangesNothing ==
    [][ KeyProcessed("Other")
            => /\ UNCHANGED <<cursor_position, offset, should_quit, document>>
               /\ pc' = "refresh" ]_vars

C8_Witness ==
    /\ last_key = "Other"
    /\ pc = "check_quit"
    /\ out # <<>>
    /\ cursor_position.y > 0

(* C9: when the width can hold both segments, the status line is exactly   *)
(* width long, starts with "<file name> - <n> lines", ends with            *)
(* "<cursor.y + 1>/<n>", with only spaces in between.                      *)
C9_StatusBarRightAligned ==
    LET left == StatusLeft(document)
        right == Digits(cursor_position.y + 1) \o <<"/">> \o Digits(DocLen(document))
        width == terminal.width
    IN  (pc = "status_done" /\ cursor_position.y < UsizeMax
            /\ width >= Len(left) + Len(right))
        => LET line == SubSeq(out[3].text, 1, Len(out[3].text) - 1)
           IN  /\ Len(line) = width
               /\ SubSeq(line, 1, Len(left)) = left
               /\ IsSuffix(right, line)
               /\ \A i \in (Len(left) + 1)..(width - Len(right)) : line[i] = " "

(* C10: a completed frame ends with show-cursor then flush, and that flush *)
(* is the only one of the frame.                                           *)
C10_SingleFlushAtFrameEnd ==
    pc \in {"check_quit", "done"}
        => /\ Len(out) >= 2
           /\ out[Len(out)].op = "Flush"
           /\ out[Len(out) - 1].op = "Show"
           /\ CountOp(out, "Flush") = 1

----------------------------------------------------------------------------
(* Properties of a frame's content *)

WritePositions(ops) == {p \in DOMAIN ops : ops[p].op = "Write"}

(* the k-th line written by the frame, without its "\n" *)
NthWrite(ops, k) ==
    LET p == CHOOSE q \in WritePositions(ops) :
                 Cardinality({r \in WritePositions(ops) : r <= q}) = k
    IN  SubSeq(ops[p].text, 1, Len(ops[p].text) - 1)

(* the lines written before the status bar's colours are set *)
ContentWrites(ops) ==
    {p \in WritePositions(ops) : \A q \in 1..p : ops[q].op # "SetBg"}

BannerLine(width) ==
    LET t == RenderWelcome(width)[1].text IN SubSeq(t, 1, Len(t) - 1)

(* C11: for an empty document a non-quit frame draws exactly height        *)
(* content rows; row height / 3 is the welcome banner, every other row is  *)
(* a bare "~".                                                             *)
C11_EmptyDocumentRows ==
    (pc = "frame_done" /\ DocIsEmpty(document))
        => /\ Cardinality(ContentWrites(out)) = terminal.height
           /\ \A r \in 0..(terminal.height - 1) :
                NthWrite(out, r + 1) =
                    IF r = terminal.height \div 3
                    THEN BannerLine(terminal.width)
                    ELSE <<"~", "\r">>

C11_Witness ==
    /\ pc = "frame_done"
    /\ DocIsEmpty(document)
    /\ terminal.height >= 3
    /\ terminal.width > 0

----------------------------------------------------------------------------
(* Properties of navigation *)

Origin == [x |-> 0, y |-> 0]

BackwardKeys == {"Left", "Up", "PageUp", "Home"}

(* no coordinate grows on a key that moves towards the origin *)
NoWrap ==
    /\ \A k \in {"Left", "Home"} :
          KeyProcessed(k) => /\ cursor_position'.x <= cursor_position.x
                             /\ cursor_position'.y = cursor_position.y
    /\ \A k \in {"Up", "PageUp"} :
          KeyProcessed(k) => /\ cursor_position'.y <= cursor_position.y
                             /\ cursor_position'.x = cursor_position.x

(* C12 as stated: from cursor (0,0) and offset (0,0), Left, Up, Page-Up    *)
(* and Home leave the cursor at (0,0) and the offset at (0,0), and no      *)
(* navigation key wraps a coordinate.                                      *)
C12_SaturatesAtZero ==
    [][ /\ \A k \in BackwardKeys :
              (KeyProcessed(k) /\ cursor_position = Origin /\ offset = Origin)
                  => (cursor_position' = Origin /\ offset' = Origin)
        /\ NoWrap ]_vars

(* C12 amended: from cursor (0,0), Left, Up, Page-Up and Home leave the    *)
(* cursor at (0,0); the offset stays at (0,0) when width and height are    *)
(* positive; no navigation key wraps a coordinate.                         *)
C12_SaturatesAtZeroInViewport ==
    [][ /\ \A k \in BackwardKeys :
              (KeyProcessed(k) /\ cursor_position = Origin /\ offset = Origin)
                  => /\ cursor_position' = Origin
                     /\ (terminal.width > 0 /\ terminal.height > 0)
                            => offset' = Origin
        /\ NoWrap ]_vars

C12_Witness ==
    /\ keys_read = 1
    /\ last_key \in {"Left", "Up"}
    /\ cursor_position = Origin /\ offset = Origin
    /\ terminal.width > 0 /\ terminal.height > 0
    /\ pc = "check_quit"

----------------------------------------------------------------------------
(* Properties of Document *)

LFPositions(s) == {i \in DOMAIN s : s[i] = "\n"}

(* the position of the k-th "\n" of s *)
NthLF(s, k) ==
    CHOOSE p \in LFPositions(s) : Cardinality({q \in LFPositions(s) : q <= p}) = k

(* the number of lines of a source: one per "\n", and one more for text    *)
(* after the last "\n"                                                     *)
SourceLineCount(s) ==
    Cardinality(LFPositions(s))
        + (IF Len(s) > 0 /\ s[Len(s)] # "\n" THEN 1 ELSE 0)

(* the k-th line of a source, without its "\n" or "\r\n" terminator *)
SourceLine(s, k) ==
    LET first == IF k = 1 THEN 1 ELSE NthLF(s, k - 1) + 1
        terminated == k <= Cardinality(LFPositions(s))
        last == IF terminated THEN NthLF(s, k) - 1 ELSE Len(s)
        body == SubSeq(s, first, last)
    IN  IF terminated /\ Len(body) > 0 /\ body[Len(body)] = "\r"
        THEN SubSeq(body, 1, Len(body) - 1)
        ELSE body

(* C13: a document loaded from a source with n lines has len() = n, is     *)
(* empty exactly when n = 0, row(i) is the i-th line for i < n and none    *)
(* for i >= n.                                                             *)
C13_DocumentMatchesSource ==
    pc = "opened"
        => LET n == SourceLineCount(env.contents)
           IN  /\ DocLen(document) = n
               /\ DocIsEmpty(document) <=> (n = 0)
               /\ \A i \in 0..(n - 1) :
                    DocRow(document, i) = Some(SourceLine(env.contents, i + 1))
               /\ \A i \in n..(n + 2) : DocRow(document, i) = None

C13_Witness ==
    /\ pc = "opened"
    /\ DocLen(document) >= 3
    /\ DocRow(document, 1) = Some(<<>>)

(* C14: the document is read-only after startup: no key and no render     *)
(* changes its row count or any row's content.                             *)
C14_DocumentReadOnly == [][document' = document]_vars

C14_Witness ==
    /\ DocLen(document) = 2
    /\ keys_read = KeysCap
    /\ cursor_position.y > 0
    /\ pc = "check_quit"

----------------------------------------------------------------------------
(* Properties of scroll *)

(* the rule of one axis, with the comparison and the difference in         *)
(* unbounded integers and the result kept in the range of usize (the only  *)
(* value out of range is cursor + 1 for the largest cursor and extent 0)   *)
ScrollRule(c, o, extent) ==
    IF c < o THEN c
    ELSE IF c >= o + extent THEN Min(c - extent + 1, UsizeMax)
    ELSE o

(* C15: on every scroll the new offset is, on each axis by itself: the     *)
(* cursor if cursor < offset; cursor - extent + 1 if cursor >= offset +    *)
(* extent; the old offset otherwise.                                       *)
C15_ScrollRulePerAxis ==
    [][ (\E k \in NavigationKeys : KeyProcessed(k))
            => /\ offset'.x = ScrollRule(cursor_position'.x, offset.x, terminal.width)
               /\ offset'.y = ScrollRule(cursor_position'.y, offset.y, terminal.height)
      ]_vars

C15_Witness ==
    /\ last_key = "Down"
    /\ terminal.height > 0 /\ terminal.width > 0
    /\ offset.y > 0 /\ offset.x > 0
    /\ cursor_position.y = offset.y + terminal.height - 1
    /\ pc = "check_quit"

----------------------------------------------------------------------------
(* Properties of the frame layout *)

(* the columns [ox, ox + w) of a row that exist *)
Window(row, ox, w) ==
    LET last == Min(ox + w, Len(row))
    IN  [j \in 1..(IF last > ox THEN last - ox ELSE 0) |-> row[ox + j]]

ExpectedRow(r) ==
    IF offset.y + r < DocLen(document)
    THEN Window(document.rows[offset.y + r + 1], offset.x, terminal.width) \o <<"\r">>
    ELSE IF DocIsEmpty(document) /\ r = terminal.height \div 3
         THEN BannerLine(terminal.width)
         ELSE <<"~", "\r">>

(* the position of the k-th line written by the frame *)
NthWritePos(ops, k) ==
    CHOOSE q \in WritePositions(ops) :
        Cardinality({r \in WritePositions(ops) : r <= q}) = k

(* C16: a non-quit frame draws exactly height content rows; row r shows    *)
(* document row offset.y + r windowed to [offset.x, offset.x + width) when *)
(* that row exists and a placeholder otherwise; then comes the status bar  *)
(* and after it the message bar.                                           *)
C16_FrameLayout ==
    pc = "frame_done"
        => LET h == terminal.height
           IN  /\ Cardinality(ContentWrites(out)) = h
               /\ Cardinality(WritePositions(out)) = h + 1
               /\ \A r \in 0..(h - 1) : NthWrite(out, r + 1) = ExpectedRow(r)
               /\ NthWrite(out, h + 1)
                    = StatusText(document, cursor_position, terminal.width)
               /\ LET sb == NthWritePos(out, h + 1)
                  IN  /\ \E b \in 1..(sb - 1) : out[b].op = "SetBg"
                      /\ \A b \in 1..(sb - 1) : out[b].op = "SetBg" =>
                            \A w \in ContentWrites(out) : w < b
                      /\ \E m \in (sb + 1)..Len(out) :
                            /\ out[m].op = "ClearLine"
                            /\ \A t \in DOMAIN out : out[t].op = "Text" => t = m + 1
                            /\ out[m + 1].op \in {"Text", "Goto"}

C16_Witness ==
    /\ pc = "frame_done"
    /\ DocLen(document) = 4
    /\ offset = [x |-> 1, y |-> 1]
    /\ terminal.height >= 4
    /\ terminal.width >= 2

----------------------------------------------------------------------------
(* Properties of the message bar *)

MessageShown(ops) == \E t \in DOMAIN ops : ops[t].op = "Text"

(* a non-quit frame is completed in this step *)
FrameCompleted == pc = "refresh" /\ pc' = "check_quit" /\ ~should_quit

(* C17: a frame shows the status message, cut to the viewport width,       *)
(* exactly when the message's age at that frame is below 5 seconds; the    *)
(* clock never goes back and the message keeps its time, so after a frame  *)
(* that found it expired every later frame leaves the line blank.          *)
C17_MessageShownWhileYoung ==
    /\ [][ /\ FrameCompleted =>
                /\ MessageShown(out') <=> (now - status_message.time < 5)
                /\ \A t \in DOMAIN out' : out'[t].op = "Text" =>
                      /\ Len(out'[t].text) = Min(terminal.width, Len(status_message.text))
                      /\ \A i \in DOMAIN out'[t].text :
                            out'[t].text[i] = status_message.text[i]
           /\ now' >= now
           /\ status_message' = status_message ]_vars
    /\ []((pc = "check_quit" /\ ~should_quit /\ ~MessageShown(out))
              => now - status_message.time >= 5)

C17_Witness ==
    /\ pc = "check_quit" /\ ~should_quit
    /\ ~MessageShown(out)
    /\ keys_read > 0
    /\ terminal.width > 0

----------------------------------------------------------------------------
(* Properties of the welcome banner *)

WelcomeText == WelcomePrefix \o VERSION

(* the banner line as it appears on the terminal row, without "\r" *)
BannerOnScreen ==
    LET line == NthWrite(out, (terminal.height \div 3) + 1)
    IN  SubSeq(line, 1, Len(line) - 1)

BannerCentered(line, width) ==
    LET len == Len(WelcomeText)
        left == Len(line) - len
        right == width - Len(line)
    IN  /\ SubSeq(line, left + 1, Len(line)) = WelcomeText
        /\ line[1] = "~"
        /\ \A i \in 2..left : line[i] = " "
        /\ right - left \in {-1, 0, 1}

(* C18: for every viewport width the banner line written ("~", padding and *)
(* text together) is at most width characters long, and for a width larger *)
(* than the text the text is horizontally centered.                        *)
C18_BannerFitsWidth ==
    (pc = "frame_done" /\ DocIsEmpty(document) /\ terminal.height > 0)
        => /\ Len(BannerOnScreen) <= terminal.width
           /\ terminal.width > Len(WelcomeText)
                => BannerCentered(BannerOnScreen, terminal.width)

----------------------------------------------------------------------------
(* Properties of the cursor placement *)

(* C19: a non-quit frame ends by placing the terminal cursor; for width    *)
(* and height > 0 the coordinate sent is (cursor.x - offset.x + 1,         *)
(* cursor.y - offset.y + 1) and lies in [1, width] x [1, height], so the   *)
(* subtraction does not saturate and the cast to 16 bits does not cut.     *)
C19_CursorWireCoordinate ==
    (pc = "check_quit" /\ ~should_quit)
        => LET g == out[Len(out) - 2]
           IN  /\ g.op = "Goto"
               /\ (terminal.width > 0 /\ terminal.height > 0)
                    => /\ cursor_position.x >= offset.x
                       /\ cursor_position.y >= offset.y
                       /\ g.x = cursor_position.x - offset.x + 1
                       /\ g.y = cursor_position.y - offset.y + 1
                       /\ 1 <= g.x /\ g.x <= terminal.width
                       /\ 1 <= g.y /\ g.y <= terminal.height
                       /\ g.x < 65536 /\ g.y < 65536

C19_Witness ==
    /\ pc = "check_quit" /\ ~should_quit
    /\ terminal.width > 0 /\ terminal.height > 0
    /\ offset.x > 0 /\ offset.y > 0
    /\ cursor_position.x > offset.x
    /\ cursor_position.y > offset.y

----------------------------------------------------------------------------
(* Properties of key dispatch *)

(* C20: Ctrl-Q leaves cursor and offset unchanged; a navigation key never  *)
(* changes should_quit; the offset changes only while a navigation key is  *)
(* processed; should_quit never goes back from true to false.              *)
C20_KeyKindsSeparated ==
    [][ /\ KeyProcessed("CtrlQ") => UNCHANGED <<cursor_position, offset>>
        /\ (\E k \in NavigationKeys : KeyProcessed(k)) => should_quit' = should_quit
        /\ offset' # offset => \E k \in NavigationKeys : KeyProcessed(k)
        /\ should_quit => should_quit' ]_vars

C20_Witness ==
    /\ last_key = "CtrlQ"
    /\ should_quit
    /\ offset.y > 0
    /\ cursor_position.x > 0
    /\ keys_read = KeysCap

====
